---- MODULE Spec2Model ----
(***************************************************************************)
(* Model of cc_changelog_gen/app.py: the commit-title classification       *)
(* pipeline (pre-capture, type-capture, breaking-change detection), the    *)
(* MarkdownContent aggregator with its renderer, and the semver range      *)
(* resolver.                                                               *)
(*                                                                         *)
(* A Python str is a sequence of one-character strings.  A regular         *)
(* expression is a sequence of atoms: each atom is a character class with  *)
(* a quantifier, optionally wrapped in a capture group.  The patterns and  *)
(* subjects used here are such that greedy left-to-right matching needs no *)
(* backtracking, so the matcher below agrees with Python's re on them.     *)
(***************************************************************************)
EXTENDS Integers, Sequences, FiniteSets, TLC

\* ------------------------------------------------------------------------
\* Bounds
\* ------------------------------------------------------------------------
MaxCommits == 2
MaxRuns == 2
MaxTags == 3

\* ------------------------------------------------------------------------
\* Python values
\* ------------------------------------------------------------------------
\* Python's None; no str is equal to it (every str element is one character)
None == <<"None">>

\* truth value of a str-or-None in a Python condition
Truthy(x) == x # None /\ x # <<>>

Lowers == <<"a","b","c","d","e","f","g","h","i","j","k","l","m","n","o","p","q","r","s","t","u","v","w","x","y","z">>
Uppers == <<"A","B","C","D","E","F","G","H","I","J","K","L","M","N","O","P","Q","R","S","T","U","V","W","X","Y","Z">>
LowerSet == {Lowers[i] : i \in 1..26}
UpperSet == {Uppers[i] : i \in 1..26}
DigitSeq == <<"0","1","2","3","4","5","6","7","8","9">>
Digits == {DigitSeq[i] : i \in 1..10}

\* the regex classes \w and \s
Word == LowerSet \cup UpperSet \cup Digits \cup {"_"}
Space == {" "}

\* str.upper() / str.lower() on one character
ToUpper(c) == IF c \in LowerSet THEN Uppers[CHOOSE i \in 1..26 : Lowers[i] = c] ELSE c
ToLower(c) == IF c \in UpperSet THEN Lowers[CHOOSE i \in 1..26 : Uppers[i] = c] ELSE c

\* str.capitalize(): first character upper-cased, all the others lower-cased
str_capitalize(s) ==
    IF s = <<>> THEN s
    ELSE <<ToUpper(s[1])>> \o [i \in 1..(Len(s) - 1) |-> ToLower(s[i + 1])]

\* ------------------------------------------------------------------------
\* Regular expressions (module re)
\* ------------------------------------------------------------------------
\* atoms: a literal character, cls+ , cls* , (cls+) , (c)? , (c?)
Lit(c) == [cls |-> {c}, lo |-> 1, many |-> FALSE, grp |-> FALSE, outer |-> FALSE]
Plus(cls) == [cls |-> cls, lo |-> 1, many |-> TRUE, grp |-> FALSE, outer |-> FALSE]
Star(cls) == [cls |-> cls, lo |-> 0, many |-> TRUE, grp |-> FALSE, outer |-> FALSE]
GroupPlus(cls) == [cls |-> cls, lo |-> 1, many |-> TRUE, grp |-> TRUE, outer |-> FALSE]
\* (c)? : the quantifier is outside the group, an unused group is None
OptGroup(c) == [cls |-> {c}, lo |-> 0, many |-> FALSE, grp |-> TRUE, outer |-> TRUE]
\* the literal text s as a pattern
LitSeq(s) == [i \in 1..Len(s) |-> Lit(s[i])]

\* number of capture groups of a pattern: len(match.groups())
RECURSIVE NumGroups(_)
NumGroups(pat) ==
    IF pat = <<>> THEN 0
    ELSE (IF pat[1].grp THEN 1 ELSE 0) + NumGroups(Tail(pat))

\* length of the longest run of characters of cls in s from position pos
RECURSIVE RunLen(_, _, _)
RunLen(cls, s, pos) ==
    IF pos <= Len(s) /\ s[pos] \in cls THEN 1 + RunLen(cls, s, pos + 1) ELSE 0

\* characters a greedy atom takes when the run of its class has length r
TakenOf(a, r) == IF a.many THEN r ELSE IF r >= 1 THEN 1 ELSE 0

\* characters a greedy atom takes at pos
Taken(a, s, pos) == TakenOf(a, RunLen(a.cls, s, pos))

\* the text a group captured: None for a group that took no part
Captured(a, s, pos, n) ==
    IF n = 0 /\ a.outer THEN None ELSE SubSeq(s, pos, pos + n - 1)

\* the match of the atoms of pat from atom i on, at position pos of s, with
\* the groups gs captured so far; MatchAtom: atom i takes n characters
RECURSIVE MatchFrom(_, _, _, _, _)
RECURSIVE MatchAtom(_, _, _, _, _, _)
MatchFrom(pat, i, s, pos, gs) ==
    IF i > Len(pat) THEN [ok |-> TRUE, end |-> pos, groups |-> gs]
    ELSE MatchAtom(pat, i, s, pos, gs, Taken(pat[i], s, pos))

MatchAtom(pat, i, s, pos, gs, n) ==
    IF n < pat[i].lo THEN [ok |-> FALSE, end |-> pos, groups |-> gs]
    ELSE MatchFrom(pat, i + 1, s, pos + n,
                   IF pat[i].grp THEN Append(gs, Captured(pat[i], s, pos, n)) ELSE gs)

\* re.match(rf"^{pat}", s): ok, first position after the match, the groups
re_match(pat, s) == MatchFrom(pat, 1, s, 1, <<>>)

\* the indices of the patterns of pats that match at the start of s, and the
\* first of them
Matching(pats, s) == {i \in 1..Len(pats) : re_match(pats[i], s).ok}
FirstMatching(pats, s) ==
    CHOOSE i \in Matching(pats, s) : \A k \in Matching(pats, s) : i <= k

\* the result of re.split for the match m of s
SplitBy(m, s) ==
    IF m.ok THEN <<(<<>>)>> \o m.groups \o <<SubSeq(s, m.end, Len(s))>>
    ELSE <<s>>

\* re.split(rf"^{pat}", s): [text before, group 1, .., group n, text after]
re_split(pat, s) == SplitBy(re_match(pat, s), s)

\* s without the text matched by m
RemoveMatch(m, s) == IF m.ok THEN SubSeq(s, m.end, Len(s)) ELSE s

\* re.sub(rf"^{pat}", "", s)
re_sub_prefix(pat, s) == RemoveMatch(re_match(pat, s), s)

\* the match m of a text of n characters reaches its end
ReachesEnd(m, n) == m.ok /\ m.end = n + 1

\* the positions of s from which pat matches up to the end of s
SuffixStarts(pat, s) ==
    {i \in 1..(Len(s) + 1) :
        ReachesEnd(re_match(pat, SubSeq(s, i, Len(s))), Len(s) - i + 1)}

\* s cut before the least of the positions starts
CutBefore(starts, s) ==
    IF starts = {} THEN s
    ELSE SubSeq(s, 1, (CHOOSE i \in starts : \A j \in starts : i <= j) - 1)

\* re.sub(rf"{pat}$", "", s): the leftmost match that reaches the end of s
re_sub_suffix(pat, s) == CutBefore(SuffixStarts(pat, s), s)

\* re.sub(search, replace, s) for a search pattern that matches no empty
\* text; SubAllAt: m is the match at the start of s
RECURSIVE re_sub_all(_, _, _)
RECURSIVE SubAllAt(_, _, _, _)
re_sub_all(search, replace, s) ==
    IF s = <<>> THEN s ELSE SubAllAt(search, replace, s, re_match(search, s))

SubAllAt(search, replace, s, m) ==
    IF m.ok /\ m.end > 1
    THEN replace \o re_sub_all(search, replace, SubSeq(s, m.end, Len(s)))
    ELSE <<s[1]>> \o re_sub_all(search, replace, Tail(s))

\* ------------------------------------------------------------------------
\* Title classifier and breaking-change detector
\* ------------------------------------------------------------------------
enhance_title(title, capitalize_title_first_char) ==
    IF capitalize_title_first_char THEN str_capitalize(title) ELSE title

\* process_pre_capture after a match: t is re.split(..)[1].  err: re.sub was
\* handed None (TypeError)
PreCaptured(t, pre_captures_after_trim) ==
    IF t = None THEN [err |-> TRUE, title |-> <<>>]
    ELSE [err |-> FALSE, title |-> re_sub_prefix(pre_captures_after_trim, t)]

\* the loop of process_pre_capture from pattern i on: it stops at the first
\* pattern that matches
RECURSIVE PreCaptureFrom(_, _, _, _)
PreCaptureFrom(title, pre_captures, pre_captures_after_trim, i) ==
    IF i > Len(pre_captures) THEN [err |-> FALSE, title |-> title]
    ELSE IF re_match(pre_captures[i], title).ok
         THEN PreCaptured(re_split(pre_captures[i], title)[2], pre_captures_after_trim)
         ELSE PreCaptureFrom(title, pre_captures, pre_captures_after_trim, i + 1)

process_pre_capture(title, pre_captures, pre_captures_after_trim) ==
    PreCaptureFrom(title, pre_captures, pre_captures_after_trim, 1)

\* the last element of a list: parts[-1]
Last(parts) == parts[Len(parts)]

\* process_type_capture after the match of a pattern: groups are the groups
\* of the match and rest is re.split(..)[-1].  err: group(1) of a pattern
\* without groups (IndexError)
TypeCaptured(groups, rest, type_captures_after_trim, type_captures_allow_breaking_change_group, supported_types) ==
    IF Len(groups) = 0
    THEN [err |-> TRUE, title |-> rest, type_capture |-> <<>>,
          type_match |-> "OTHERS", is_breaking_change |-> FALSE]
    ELSE [err |-> FALSE,
          title |-> re_sub_prefix(type_captures_after_trim, rest),
          type_capture |-> groups[1],
          type_match |-> IF groups[1] \in DOMAIN supported_types
                         THEN "SUPPORTED_TYPE" ELSE "OTHERS",
          is_breaking_change |-> type_captures_allow_breaking_change_group
                                 /\ Len(groups) >= 2]

\* the loop of process_type_capture from pattern i on: the first pattern that
\* matches decides.  type_captures_allow_breaking_change_group is the truth
\* value of the argument
RECURSIVE TypeCaptureFrom(_, _, _, _, _, _)
TypeCaptureFrom(title, type_captures, type_captures_after_trim, type_captures_allow_breaking_change_group, supported_types, i) ==
    IF i > Len(type_captures)
    THEN [err |-> FALSE, title |-> title, type_capture |-> <<>>,
          type_match |-> "OTHERS", is_breaking_change |-> FALSE]
    ELSE IF re_match(type_captures[i], title).ok
         THEN TypeCaptured(re_match(type_captures[i], title).groups,
                           Last(re_split(type_captures[i], title)),
                           type_captures_after_trim,
                           type_captures_allow_breaking_change_group,
                           supported_types)
         ELSE TypeCaptureFrom(title, type_captures, type_captures_after_trim,
                              type_captures_allow_breaking_change_group,
                              supported_types, i + 1)

\* the end of process_type_capture: the trims and enhance_title
TrimAndEnhance(r, title_left_trim, title_right_trim, capitalize_title_first_char) ==
    IF r.err THEN r
    ELSE [r EXCEPT !.title =
            enhance_title(re_sub_suffix(title_right_trim,
                                        re_sub_prefix(title_left_trim, r.title)),
                          capitalize_title_first_char)]

process_type_capture(title, type_captures, type_captures_after_trim, type_captures_allow_breaking_change_group, title_left_trim, title_right_trim, supported_types, capitalize_title_first_char) ==
    TrimAndEnhance(TypeCaptureFrom(title, type_captures, type_captures_after_trim,
                                   type_captures_allow_breaking_change_group,
                                   supported_types, 1),
                   title_left_trim, title_right_trim, capitalize_title_first_char)

\* process_breaking_change after a match: t is re.split(..)[1]
BreakingLine(t, after_trim, capitalize_title_first_char) ==
    IF t = None THEN [err |-> TRUE, found |-> FALSE, msg |-> None]
    ELSE [err |-> FALSE, found |-> TRUE,
          msg |-> enhance_title(re_sub_prefix(after_trim, t),
                                capitalize_title_first_char)]

\* the inner loop of process_breaking_change: pattern bc over the lines from j
RECURSIVE BreakingLineFrom(_, _, _, _, _)
BreakingLineFrom(messages, bc, after_trim, capitalize_title_first_char, j) ==
    IF j > Len(messages) THEN [err |-> FALSE, found |-> FALSE, msg |-> None]
    ELSE IF re_match(bc, messages[j]).ok
         THEN BreakingLine(re_split(bc, messages[j])[2], after_trim,
                           capitalize_title_first_char)
         ELSE BreakingLineFrom(messages, bc, after_trim,
                               capitalize_title_first_char, j + 1)

\* the outer loop of process_breaking_change: the patterns from i on;
\* BreakingChangeNext: r is what pattern i found
RECURSIVE BreakingChangeFrom(_, _, _, _, _)
RECURSIVE BreakingChangeNext(_, _, _, _, _, _)
BreakingChangeFrom(messages, breaking_change_line_captures, after_trim, capitalize_title_first_char, i) ==
    IF i > Len(breaking_change_line_captures)
    THEN [err |-> FALSE, found |-> FALSE, msg |-> None]
    ELSE BreakingChangeNext(messages, breaking_change_line_captures, after_trim,
                            capitalize_title_first_char, i,
                            BreakingLineFrom(messages, breaking_change_line_captures[i],
                                             after_trim, capitalize_title_first_char, 1))

BreakingChangeNext(messages, breaking_change_line_captures, after_trim, capitalize_title_first_char, i, r) ==
    IF r.err \/ r.found THEN r
    ELSE BreakingChangeFrom(messages, breaking_change_line_captures, after_trim,
                            capitalize_title_first_char, i + 1)

\* the scan with the loops exchanged: the lines from j on in the outer loop,
\* the patterns in the inner one
RECURSIVE LineMajorFrom(_, _, _, _, _)
LineMajorFrom(messages, breaking_change_line_captures, after_trim, capitalize_title_first_char, j) ==
    IF j > Len(messages) THEN [err |-> FALSE, found |-> FALSE, msg |-> None]
    ELSE IF Matching(breaking_change_line_captures, messages[j]) # {}
         THEN BreakingLine(
                re_split(breaking_change_line_captures[
                           FirstMatching(breaking_change_line_captures, messages[j])],
                         messages[j])[2],
                after_trim, capitalize_title_first_char)
         ELSE LineMajorFrom(messages, breaking_change_line_captures, after_trim,
                            capitalize_title_first_char, j + 1)

\* process_breaking_change scanning line-major
process_breaking_change_line_major(messages, breaking_change_line_captures, breaking_change_line_captures_after_trim, capitalize_title_first_char) ==
    LineMajorFrom(messages, breaking_change_line_captures,
                  breaking_change_line_captures_after_trim,
                  capitalize_title_first_char, 1)

\* msg is the returned value (None when nothing matched)
process_breaking_change(messages, breaking_change_line_captures, breaking_change_line_captures_after_trim, capitalize_title_first_char) ==
    BreakingChangeFrom(messages, breaking_change_line_captures,
                       breaking_change_line_captures_after_trim,
                       capitalize_title_first_char, 1)

\* ------------------------------------------------------------------------
\* MarkdownContent and process_markdown
\* ------------------------------------------------------------------------
\* MarkdownContent.get_values: the dict after the call (the bucket exists)
get_values(values, heading) ==
    IF heading \in DOMAIN values THEN values ELSE values @@ (heading :> <<>>)

\* The document is a sequence of tokens: a heading line, a bullet line or a
\* newline character
NL == [k |-> "nl", t |-> ""]
H1(title) == [k |-> "h1", t |-> title]
H2(heading) == [k |-> "h2", t |-> heading]
Bullet(p) == [k |-> "li", t |-> p]

\* "\n".join(map(lambda p: f"- {p}", points))
RECURSIVE append_points(_)
append_points(points) ==
    IF points = <<>> THEN <<>>
    ELSE IF Len(points) = 1 THEN <<Bullet(points[1])>>
    ELSE <<Bullet(points[1]), NL>> \o append_points(Tail(points))

\* f"## {heading}\n\n{_append_points(points)}\n"
append_section(heading, points) ==
    <<H2(heading), NL, NL>> \o append_points(points) \o <<NL>>

\* HeadingSectionsFrom that emits the sections in the opposite order
RECURSIVE HeadingSectionsReversed(_, _, _)
HeadingSectionsReversed(values, headings, i) ==
    IF i > Len(headings) THEN <<>>
    ELSE HeadingSectionsReversed(values, headings, i + 1)
         \o (IF headings[i].key \in DOMAIN values
             THEN append_section(headings[i].text, values[headings[i].key]) \o <<NL>>
             ELSE <<>>)

\* the loop over headings.items() from entry i on
RECURSIVE HeadingSectionsFrom(_, _, _)
HeadingSectionsFrom(values, headings, i) ==
    IF i > Len(headings) THEN <<>>
    ELSE (IF headings[i].key \in DOMAIN values
          THEN append_section(headings[i].text, values[headings[i].key]) \o <<NL>>
          ELSE <<>>)
         \o HeadingSectionsFrom(values, headings, i + 1)

\* process_markdown without the test that others is not empty
process_markdown_unguarded(m, title, headings, others_heading, breaking_changes_heading) ==
    <<H1(title), NL, NL>>
    \o HeadingSectionsFrom(m.values, headings, 1)
    \o append_section(others_heading, m.others) \o <<NL>>
    \o (IF Len(m.breaking_changes) > 0
        THEN append_section(breaking_changes_heading, m.breaking_changes)
        ELSE <<>>)

\* process_markdown with a newline after the breaking-changes section too
process_markdown_trailing(m, title, headings, others_heading, breaking_changes_heading) ==
    <<H1(title), NL, NL>>
    \o HeadingSectionsFrom(m.values, headings, 1)
    \o (IF Len(m.others) > 0
        THEN append_section(others_heading, m.others) \o <<NL>> ELSE <<>>)
    \o (IF Len(m.breaking_changes) > 0
        THEN append_section(breaking_changes_heading, m.breaking_changes) \o <<NL>>
        ELSE <<>>)

process_markdown(mdc, title, headings, others_heading, breaking_changes_heading) ==
    <<H1(title), NL, NL>>
    \o HeadingSectionsFrom(mdc.values, headings, 1)
    \o (IF Len(mdc.others) > 0
        THEN append_section(others_heading, mdc.others) \o <<NL>> ELSE <<>>)
    \o (IF Len(mdc.breaking_changes) > 0
        THEN append_section(breaking_changes_heading, mdc.breaking_changes)
        ELSE <<>>)

\* ------------------------------------------------------------------------
\* Semantic versions (package semver) and the range resolver
\* ------------------------------------------------------------------------
\* _clean_tag: re.sub(r"^[vV]", "", possible_tag)
clean_tag(possible_tag) ==
    IF possible_tag # <<>> /\ possible_tag[1] \in {"v", "V"}
    THEN Tail(possible_tag) ELSE possible_tag

\* position of the first ch in s, 0 when there is none
FirstIndex(s, ch) ==
    IF \E i \in 1..Len(s) : s[i] = ch
    THEN CHOOSE i \in 1..Len(s) : s[i] = ch /\ \A j \in 1..(i - 1) : s[j] # ch
    ELSE 0

\* s.split(ch)
RECURSIVE SplitOn(_, _)
SplitOn(s, ch) ==
    LET i == FirstIndex(s, ch)
    IN  IF i = 0 THEN <<s>>
        ELSE <<SubSeq(s, 1, i - 1)>> \o SplitOn(SubSeq(s, i + 1, Len(s)), ch)

\* a numeric identifier: 0|[1-9]\d*
IsNum(s) ==
    /\ s # <<>>
    /\ \A i \in 1..Len(s) : s[i] \in Digits
    /\ (Len(s) = 1 \/ s[1] # "0")

DigitVal(c) == (CHOOSE i \in 1..10 : DigitSeq[i] = c) - 1

RECURSIVE NumVal(_)
NumVal(s) ==
    IF s = <<>> THEN 0 ELSE 10 * NumVal(SubSeq(s, 1, Len(s) - 1)) + DigitVal(s[Len(s)])

\* the text before and after the first "-": MAJOR.MINOR.PATCH and prerelease
VersionCore(s) ==
    LET d == FirstIndex(s, "-") IN IF d = 0 THEN s ELSE SubSeq(s, 1, d - 1)
VersionPre(s) ==
    LET d == FirstIndex(s, "-") IN IF d = 0 THEN <<>> ELSE SubSeq(s, d + 1, Len(s))

\* semver.Version.is_valid, for MAJOR.MINOR.PATCH with an optional prerelease
\* of one lower-case alphabetic identifier and no build part
is_valid(s) ==
    LET parts == SplitOn(VersionCore(s), ".")
    IN  /\ Len(parts) = 3
        /\ \A i \in 1..3 : IsNum(parts[i])
        /\ (FirstIndex(s, "-") # 0 =>
              /\ VersionPre(s) # <<>>
              /\ \A i \in 1..Len(VersionPre(s)) : VersionPre(s)[i] \in LowerSet)

\* semver.Version.parse
parse(s) ==
    LET parts == SplitOn(VersionCore(s), ".")
    IN  [major |-> NumVal(parts[1]), minor |-> NumVal(parts[2]),
         patch |-> NumVal(parts[3]), prerelease |-> VersionPre(s)]

LetterIndex(c) == CHOOSE i \in 1..26 : Lowers[i] = c

\* ASCII order of two alphabetic identifiers
RECURSIVE LexLess(_, _)
LexLess(a, b) ==
    IF b = <<>> THEN FALSE
    ELSE IF a = <<>> THEN TRUE
    ELSE IF a[1] # b[1] THEN LetterIndex(a[1]) < LetterIndex(b[1])
    ELSE LexLess(Tail(a), Tail(b))

\* Version.__lt__: precedence by major, minor, patch, then prerelease (a
\* version with a prerelease precedes the same version without one)
VersionLess(a, b) ==
    IF a.major # b.major THEN a.major < b.major
    ELSE IF a.minor # b.minor THEN a.minor < b.minor
    ELSE IF a.patch # b.patch THEN a.patch < b.patch
    ELSE IF a.prerelease = <<>> THEN FALSE
    ELSE IF b.prerelease = <<>> THEN TRUE
    ELSE LexLess(a.prerelease, b.prerelease)

\* max(versions, key=versions.get) over the entries from i on, best so far b:
\* a later entry replaces the best one only when it is strictly greater
RECURSIVE MaxFrom(_, _, _)
MaxFrom(versions, i, b) ==
    IF i > Len(versions) THEN versions[b].name
    ELSE MaxFrom(versions, i + 1,
                 IF VersionLess(versions[b].version, versions[i].version) THEN i ELSE b)

\* latest_semver that takes the first entry instead of the greatest
latest_semver_first(versions) ==
    IF versions # <<>> THEN versions[1].name ELSE None

\* versions: the dict as the sequence of its items, in insertion order
latest_semver(versions) ==
    IF versions # <<>> THEN MaxFrom(versions, 2, 1) ELSE None

\* IsCandidate with "not greater" in place of "less"
IsCandidate_le(target, tv) == ~ VersionLess(target, tv.version)

\* a tag is a candidate when its version is strictly less than the target
IsCandidate(target, tv) == VersionLess(tv.version, target)

closest_previous_semver(target, versions) ==
    latest_semver(SelectSeq(versions, LAMBDA tv : IsCandidate(target, tv)))

\* the dict comprehension of process_commits_str
RECURSIVE tag_versions(_)
tag_versions(repo_tags) ==
    IF repo_tags = <<>> THEN <<>>
    ELSE (IF is_valid(clean_tag(repo_tags[1]))
          THEN <<[name |-> repo_tags[1], version |-> parse(clean_tag(repo_tags[1]))]>>
          ELSE <<>>)
         \o tag_versions(Tail(repo_tags))

StartsWithSentinel(commits_str) ==
    Len(commits_str) >= 3 /\ SubSeq(commits_str, 1, 3) = <<"~", ".", ".">>

\* range: the returned commits_str; warning: what was printed to stderr
process_commits_str(commits_str, release_title, repo_tags) ==
    IF StartsWithSentinel(commits_str)
    THEN LET title_tag_raw == clean_tag(release_title)
             tvs == tag_versions(repo_tags)
         IN  IF is_valid(title_tag_raw)
             THEN LET closest_prev_tag == closest_previous_semver(parse(title_tag_raw), tvs)
                  IN  IF Truthy(closest_prev_tag)
                      THEN [range |-> closest_prev_tag \o Tail(commits_str),
                            warning |-> "Using commit range"]
                      ELSE [range |-> SubSeq(commits_str, 4, Len(commits_str)),
                            warning |-> "No valid semver tags found"]
             ELSE LET latest_tag == latest_semver(tvs)
                  IN  IF Truthy(latest_tag)
                      THEN [range |-> latest_tag \o Tail(commits_str),
                            warning |-> "Release title is not a valid semver"]
                      ELSE [range |-> SubSeq(commits_str, 4, Len(commits_str)),
                            warning |-> "No valid semver release title or tags found"]
    ELSE [range |-> commits_str, warning |-> ""]

\* ------------------------------------------------------------------------
\* Inputs: commit messages, configurations, tags, command lines
\* ------------------------------------------------------------------------
\* "feat: add login"
S_feat == <<"f","e","a","t",":"," ","a","d","d"," ","l","o","g","i","n">>
\* "chore: bump deps"
S_chore == <<"c","h","o","r","e",":"," ","b","u","m","p"," ","d","e","p","s">>
\* "fix: typo"
S_fix == <<"f","i","x",":"," ","t","y","p","o">>
\* "feat!: remove old API"
S_break == <<"f","e","a","t","!",":"," ","r","e","m","o","v","e"," ","o","l","d"," ","A","P","I">>
\* "BREAKING CHANGE: old API removed"
S_bc_line == <<"B","R","E","A","K","I","N","G"," ","C","H","A","N","G","E",":"," ","o","l","d"," ","A","P","I"," ","r","e","m","o","v","e","d">>
\* "fix!: drop v1"
S_drop == <<"f","i","x","!",":"," ","d","r","o","p"," ","v","1">>
\* "BREAKING CHANGE:"
S_bc_bare == <<"B","R","E","A","K","I","N","G"," ","C","H","A","N","G","E",":">>
\* "[core] fix: x "
S_scoped == <<"[","c","o","r","e","]"," ","f","i","x",":"," ","x"," ">>
\* "feat"
K_feat == <<"f","e","a","t">>
\* "fix"
K_fix == <<"f","i","x">>
\* "Features"
L_Features == <<"F","e","a","t","u","r","e","s">>
\* "Fixes"
L_Fixes == <<"F","i","x","e","s">>
\* "Others"
L_Others == <<"O","t","h","e","r","s">>
\* "BREAKING CHANGES"
L_Breaking == <<"B","R","E","A","K","I","N","G"," ","C","H","A","N","G","E","S">>
\* "Add login"
T_Add_login == <<"A","d","d"," ","l","o","g","i","n">>
\* "Bump deps"
T_Bump_deps == <<"B","u","m","p"," ","d","e","p","s">>
\* "~..HEAD"
R_head == <<"~",".",".","H","E","A","D">>
\* "~.."
R_bare == <<"~",".",".">>
\* "~...main"
R_sym == <<"~",".",".",".","m","a","i","n">>
\* "HEAD~3..HEAD"
R_plain == <<"H","E","A","D","~","3",".",".","H","E","A","D">>
\* "v1.0.0"
G_v100 == <<"v","1",".","0",".","0">>
\* "v1.2.0"
G_v120 == <<"v","1",".","2",".","0">>
\* "v2.0.0"
G_v200 == <<"v","2",".","0",".","0">>
\* "1.2.0"
G_120 == <<"1",".","2",".","0">>
\* "v1.2.0-rc"
G_v120rc == <<"v","1",".","2",".","0","-","r","c">>
\* "latest"
G_latest == <<"l","a","t","e","s","t">>
\* "v01.0.0"
G_v0100 == <<"v","0","1",".","0",".","0">>
\* "vv1.0.0"
G_vv100 == <<"v","v","1",".","0",".","0">>
\* "v1.10.0"
G_v1100 == <<"v","1",".","1","0",".","0">>
\* "v1.5.0"
V_v150 == <<"v","1",".","5",".","0">>
\* "vX.Y.Z"
V_vXYZ == <<"v","X",".","Y",".","Z">>
\* "V1.2.0"
V_V120 == <<"V","1",".","2",".","0">>
\* "1.2.0-rc"
V_120rc == <<"1",".","2",".","0","-","r","c">>
\* "release"
V_release == <<"r","e","l","e","a","s","e">>
\* "v1.2.0..HEAD"
X_v120_head == <<"v","1",".","2",".","0",".",".","H","E","A","D">>
\* "HEAD"
X_head == <<"H","E","A","D">>

\* cm.message.split("\n") of the commits the repository can hold
M_feat == <<S_feat>>
M_chore == <<S_chore>>
M_fix == <<S_fix>>
M_break == <<S_break, <<>>, S_bc_line>>
M_drop == <<S_drop, S_bc_bare>>
M_scoped == <<S_scoped>>
MessagePool == {M_feat, M_chore, M_fix, M_break, M_drop, M_scoped}

\* sequences without repetition of at most n elements of S
RECURSIVE DistinctSeqs(_, _)
DistinctSeqs(S, n) ==
    IF n = 0 THEN {<<>>}
    ELSE LET shorter == DistinctSeqs(S, n - 1)
             longer == {Append(q, x) : q \in shorter, x \in S}
         IN  shorter \cup {q \in longer : \A i, j \in 1..Len(q) : i # j => q[i] # q[j]}

\* all sequences of at most n elements of S
RECURSIVE SeqsUpTo(_, _)
SeqsUpTo(S, n) ==
    IF n = 0 THEN {<<>>}
    ELSE LET shorter == SeqsUpTo(S, n - 1)
         IN  shorter \cup {Append(q, x) : q \in shorter, x \in S}

\* the patterns \s+ , (\w+): , (\w+)(!)?: , BREAKING CHANGE:\s* ,
\* \[\w+\] and \[(\w+)\]
P_ws == <<Plus(Space)>>
P_type == <<GroupPlus(Word), Lit(":")>>
P_type_bang == <<GroupPlus(Word), OptGroup("!"), Lit(":")>>
P_breaking == LitSeq(S_bc_bare) \o <<Star(Space)>>
P_scope == <<Lit("["), Plus(Word), Lit("]")>>
P_scope_group == <<Lit("["), GroupPlus(Word), Lit("]")>>
\* BREAKING (\w+):\s* and \w+!:
P_breaking_group == LitSeq(SubSeq(S_bc_bare, 1, 9)) \o <<GroupPlus(Word), Lit(":"), Star(Space)>>
P_bang_subject == <<Plus(Word), Lit("!"), Lit(":")>>

\* supported_types and headings: the values of supported_types are the keys
\* of headings (ST_keys), or they are the display texts (ST_labels)
ST_keys == (K_feat :> K_feat) @@ (K_fix :> K_fix)
ST_feat == (K_feat :> K_feat)
ST_labels == (K_feat :> L_Features)
H_feat_only == <<[key |-> K_feat, text |-> L_Features]>>
H_feat_fix == <<[key |-> K_feat, text |-> L_Features], [key |-> K_fix, text |-> L_Fixes]>>
H_fix_feat == <<[key |-> K_fix,  text |-> L_Fixes], [key |-> K_feat, text |-> L_Features]>>
Layouts == {[supported_types |-> ST_labels, headings |-> H_feat_only],
            [supported_types |-> ST_feat, headings |-> H_feat_only],
            [supported_types |-> ST_keys, headings |-> H_feat_fix],
            [supported_types |-> ST_keys, headings |-> H_fix_feat]}

\* class Conf with its defaults; an Optional[Processing] is a sequence of at
\* most one Processing
DefaultConf ==
    [pre_captures |-> <<>>,
     pre_captures_after_trim |-> P_ws,
     type_captures |-> <<>>,
     type_captures_after_trim |-> P_ws,
     type_captures_allow_breaking_change_group |-> TRUE,
     breaking_change_line_captures |-> <<>>,
     breaking_change_line_captures_after_trim |-> P_ws,
     title_left_trim |-> P_ws,
     title_right_trim |-> P_ws,
     supported_types |-> <<>>,
     headings |-> <<>>,
     others_heading |-> L_Others,
     breaking_changes_heading |-> L_Breaking,
     capitalize_title_first_char |-> TRUE,
     preprocessing |-> <<>>,
     postprocessing |-> <<>>]

BaseConf ==
    [DefaultConf EXCEPT !.type_captures = <<P_type_bang, P_type>>,
                        !.breaking_change_line_captures = <<P_breaking>>,
                        !.supported_types = ST_keys,
                        !.headings = H_feat_fix]

\* the configuration files: the fields of the breaking-change marking vary
\* freely, those of the headings vary with the type pattern, the rarer ones
\* one at a time
MarkingConfs ==
    {[BaseConf EXCEPT
        !.type_captures = tcs,
        !.type_captures_allow_breaking_change_group = allow,
        !.breaking_change_line_captures_after_trim = trim,
        !.capitalize_title_first_char = cap] :
      tcs \in {<<P_type>>, <<P_type_bang>>}, allow \in BOOLEAN,
      trim \in {P_ws, <<>>}, cap \in BOOLEAN}

HeadingConfs ==
    {[BaseConf EXCEPT
        !.type_captures = tcs,
        !.supported_types = lay.supported_types,
        !.headings = lay.headings] :
      tcs \in {<<P_type>>, <<P_type_bang>>}, lay \in Layouts}

SpecialConfs ==
    {DefaultConf,
     [BaseConf EXCEPT !.pre_captures = <<P_scope>>],
     [BaseConf EXCEPT !.pre_captures = <<P_scope_group>>],
     [BaseConf EXCEPT !.breaking_change_line_captures = <<>>],
     [BaseConf EXCEPT !.breaking_change_line_captures = <<P_breaking_group>>],
     [BaseConf EXCEPT !.breaking_change_line_captures = <<P_breaking, P_bang_subject>>],
     [BaseConf EXCEPT !.type_captures = <<LitSeq(K_feat) \o <<Lit(":")>>, P_type>>],
     [BaseConf EXCEPT !.preprocessing =
        <<[search |-> <<Lit("!")>>, replace |-> <<>>]>>],
     [BaseConf EXCEPT !.postprocessing =
        <<[search |-> <<Plus(Space)>>, replace |-> <<"_">>]>>]}

Confs == MarkingConfs \cup HeadingConfs \cup SpecialConfs

\* "v1.10.0..HEAD"
X_v1100_head == <<"v","1",".","1","0",".","0",".",".","H","E","A","D">>
TagPool == {G_v100, G_v120, G_v200, G_120, G_v120rc, G_latest, G_v0100, G_vv100, G_v1100}
TitlePool == {V_v150, V_vXYZ, V_V120, V_120rc, V_release}
RangePool == {R_head, R_bare, R_sym, R_plain}

\* ------------------------------------------------------------------------
\* State
\* ------------------------------------------------------------------------
VARIABLES
    conf,          \* the configuration file, read by Conf() in main
    args,          \* the command line: commits (the range) and title
    repo_tags,     \* repo.tags, the tag names in the repository's order
    repo_commits,  \* the messages repo.iter_commits yields, split in lines
    pc,            \* "idle", "loop" (in the for loop of main), "resolved",
                   \* "crashed" (an exception ended the process)
    runs,          \* completed calls of main in this process
    commits_str,   \* the resolved range
    warnings,      \* what print_color wrote to stderr
    commits,       \* the list main iterates over
    idx,           \* commits already processed by the loop
    mdc,           \* the objects held by the MarkdownContent instance
    cm,            \* the locals of the last loop iteration
    out            \* the documents printed to stdout

vars == <<conf, args, repo_tags, repo_commits, pc, runs, commits_str, warnings,
          commits, idx, mdc, cm, out>>

\* the default arguments dict(), list(), list() as created when the class
\* body is executed
EmptyContent == [values |-> <<>>, others |-> <<>>, breaking_changes |-> <<>>]

\* MarkdownContent(): the default arguments are evaluated once, when __init__
\* is defined, so every instance made without arguments holds the same three
\* objects, with whatever the earlier instances put into them
MarkdownContent(shared) == shared

NoOutput ==
    [err |-> FALSE, title |-> <<>>, type_capture |-> <<>>,
     type_match |-> "OTHERS", is_breaking_change |-> FALSE]

NoCommit ==
    [messages |-> <<>>, pre_title |-> <<>>, type_capture_output |-> NoOutput,
     title |-> <<>>, breaking_change_title_explicit |-> None,
     breaking_change_title |-> None]

\* Optional re.sub(p.search, p.replace, title) of pre- and postprocessing
Processed(processing, title) ==
    IF processing # <<>>
    THEN re_sub_all(processing[1].search, processing[1].replace, title)
    ELSE title

\* main, the call of process_type_capture: the boolean parameter is given the
\* string c.breaking_change_line_captures_after_trim, which counts as true
\* unless it is the empty string
Classify(c, pre_title) ==
    process_type_capture(pre_title, c.type_captures, c.type_captures_after_trim,
                         c.breaking_change_line_captures_after_trim # <<>>,
                         c.title_left_trim, c.title_right_trim,
                         c.supported_types, c.capitalize_title_first_char)

\* Collect without the SUPPORTED_TYPE case: every title goes to others
Collect_others(c, m, type_capture_output, title) ==
    [m EXCEPT !.others = Append(@, title)]

\* main, the match statement: the title goes to the bucket named by
\* supported_types or to others
Collect(c, m, type_capture_output, title) ==
    IF type_capture_output.type_match = "SUPPORTED_TYPE"
    THEN LET heading == c.supported_types[type_capture_output.type_capture]
         IN  [m EXCEPT !.values =
                [get_values(m.values, heading) EXCEPT ![heading] = Append(@, title)]]
    ELSE [m EXCEPT !.others = Append(@, title)]

\* main, the choice between the explicit and the inline breaking-change title
ChooseBreaking(explicit, inline) ==
    IF Truthy(explicit) THEN explicit ELSE inline

\* main, the end of an iteration: the breaking-change title, if there is one,
\* is appended.  m1 is the aggregator after the match statement
Finish(m1, locals, inline) ==
    [err |-> FALSE,
     mdc |-> IF Truthy(ChooseBreaking(locals.breaking_change_title_explicit, inline))
             THEN [m1 EXCEPT !.breaking_changes =
                     Append(@, ChooseBreaking(locals.breaking_change_title_explicit, inline))]
             ELSE m1,
     cm |-> [locals EXCEPT !.breaking_change_title =
               ChooseBreaking(locals.breaking_change_title_explicit, inline)]]

\* main, from the match statement on: explicit is what
\* process_breaking_change returned
AfterClassify(c, m1, locals, explicit) ==
    IF explicit.err THEN [err |-> TRUE, mdc |-> m1, cm |-> locals]
    ELSE Finish(m1, [locals EXCEPT !.breaking_change_title_explicit = explicit.msg],
                IF locals.type_capture_output.is_breaking_change
                THEN locals.title ELSE None)

\* main, after process_type_capture returned type_capture_output
AfterTypeCapture(c, m, locals) ==
    IF locals.type_capture_output.err THEN [err |-> TRUE, mdc |-> m, cm |-> locals]
    ELSE AfterClassify(c, Collect(c, m, locals.type_capture_output, locals.title),
                       locals,
                       process_breaking_change(locals.messages,
                           c.breaking_change_line_captures,
                           c.breaking_change_line_captures_after_trim,
                           c.capitalize_title_first_char))

\* the locals after process_type_capture and postprocessing
WithOutput(c, locals, type_capture_output) ==
    [locals EXCEPT !.type_capture_output = type_capture_output,
                   !.title = Processed(c.postprocessing, type_capture_output.title)]

\* main, after process_pre_capture returned pre
AfterPreCapture(c, m, messages, pre) ==
    IF pre.err
    THEN [err |-> TRUE, mdc |-> m, cm |-> [NoCommit EXCEPT !.messages = messages]]
    ELSE AfterTypeCapture(c, m,
            WithOutput(c, [NoCommit EXCEPT !.messages = messages,
                                           !.pre_title = pre.title],
                       Classify(c, pre.title)))

\* main, one iteration of the for loop on the commit with these message
\* lines: err (an exception was raised), the aggregator and the locals after
main_loop_body(c, m, messages) ==
    AfterPreCapture(c, m, messages,
                    process_pre_capture(Processed(c.preprocessing, messages[1]),
                                        c.pre_captures, c.pre_captures_after_trim))

\* ------------------------------------------------------------------------
\* The pipeline: main, called up to MaxRuns times in one process
\* ------------------------------------------------------------------------
Init ==
    /\ conf \in Confs
    /\ args = [commits |-> R_head, title |-> V_v150]
    /\ repo_tags = <<G_v100, G_v200>>
    /\ repo_commits \in SeqsUpTo(MessagePool, MaxCommits)
    /\ pc = "idle"
    /\ runs = 0
    /\ commits_str = <<>>
    /\ warnings = <<>>
    /\ commits = <<>>
    /\ idx = 0
    /\ mdc = EmptyContent
    /\ cm = NoCommit
    /\ out = <<>>

\* main up to the for loop: resolve the range, list the commits, make the
\* aggregator
Start ==
    /\ pc = "idle"
    /\ runs < MaxRuns
    /\ \E r \in {process_commits_str(args.commits, args.title, repo_tags)} :
         /\ commits_str' = r.range
         /\ warnings' = IF r.warning # "" THEN Append(warnings, r.warning) ELSE warnings
    /\ commits' = repo_commits
    /\ mdc' = MarkdownContent(mdc)
    /\ idx' = 0
    /\ pc' = "loop"
    /\ UNCHANGED <<conf, args, repo_tags, repo_commits, runs, cm, out>>

\* one iteration of the for loop
ProcessCommit ==
    /\ pc = "loop"
    /\ idx < Len(commits)
    /\ \E r \in {main_loop_body(conf, mdc, commits[idx + 1])} :
         /\ mdc' = r.mdc
         /\ cm' = r.cm
         /\ pc' = IF r.err THEN "crashed" ELSE "loop"
    /\ idx' = idx + 1
    /\ UNCHANGED <<conf, args, repo_tags, repo_commits, runs, commits_str,
                   warnings, commits, out>>

\* after the loop: md = process_markdown(..); print(md)
Render ==
    /\ pc = "loop"
    /\ idx = Len(commits)
    /\ out' = Append(out, process_markdown(mdc, args.title, conf.headings,
                                           conf.others_heading,
                                           conf.breaking_changes_heading))
    /\ runs' = runs + 1
    /\ pc' = "idle"
    /\ UNCHANGED <<conf, args, repo_tags, repo_commits, commits_str, warnings,
                   commits, idx, mdc, cm>>

Next == Start \/ ProcessCommit \/ Render

Spec == Init /\ [][Next]_vars

\* ------------------------------------------------------------------------
\* The range resolver on its own: process_commits_str on every command line
\* and tag list
\* ------------------------------------------------------------------------
InitRange ==
    /\ conf = DefaultConf
    /\ args \in [commits : RangePool, title : TitlePool]
    /\ repo_tags \in DistinctSeqs(TagPool, MaxTags)
    /\ repo_commits = <<>>
    /\ pc = "idle"
    /\ runs = 0
    /\ commits_str = <<>>
    /\ warnings = <<>>
    /\ commits = <<>>
    /\ idx = 0
    /\ mdc = EmptyContent
    /\ cm = NoCommit
    /\ out = <<>>

Resolve ==
    /\ pc = "idle"
    /\ \E r \in {process_commits_str(args.commits, args.title, repo_tags)} :
         /\ commits_str' = r.range
         /\ warnings' = IF r.warning # "" THEN Append(warnings, r.warning) ELSE warnings
    /\ pc' = "resolved"
    /\ UNCHANGED <<conf, args, repo_tags, repo_commits, runs, commits, idx, mdc,
                   cm, out>>

NextRange == Resolve

SpecRange == InitRange /\ [][NextRange]_vars

\* ------------------------------------------------------------------------
\* Reading a printed document
\* ------------------------------------------------------------------------
Min(S) == CHOOSE x \in S : \A y \in S : x <= y
Max(S) == CHOOSE x \in S : \A y \in S : x >= y

\* positions of the level-2 headings
HeadingPositions(md) == {i \in 1..Len(md) : md[i].k = "h2"}

\* last token of the section whose heading is at position i
SectionEnd(md, i) ==
    LET later == {j \in HeadingPositions(md) : j > i}
    IN  IF later = {} THEN Len(md) ELSE Min(later) - 1

\* positions of the bullet lines of the section at i
BulletPositions(md, i) == {j \in i..SectionEnd(md, i) : md[j].k = "li"}

\* the document has a section with this heading and this bullet under it
HasBullet(md, heading, p) ==
    \E i \in HeadingPositions(md) :
        /\ md[i].t = heading
        /\ \E j \in BulletPositions(md, i) : md[j].t = p

\* newline characters between the last line of the section at i and the next
\* section (or the end): 1 ends the line, each further one is a blank line
TrailingNewlines(md, i) ==
    SectionEnd(md, i) - Max(BulletPositions(md, i) \cup {i})

BlankLinesAfter(md, i) == TrailingNewlines(md, i) - 1

IsLastSection(md, i) == SectionEnd(md, i) = Len(md)

\* main has just printed a document: LastDoc, rendered from mdc
Printed == pc = "idle" /\ out # <<>>
LastDoc == out[Len(out)]

\* a loop iteration has completed and its locals are in cm
IterationDone == pc # "crashed" /\ cm # NoCommit

\* the title with its first character upper-cased and the rest untouched
UpperFirst(s) == IF s = <<>> THEN s ELSE <<ToUpper(s[1])>> \o Tail(s)

\* ------------------------------------------------------------------------
\* Claims
\* ------------------------------------------------------------------------
\* the configuration of the example: the type pattern (\w+): , one heading,
\* titles capitalized, the other fields at any value
ExampleConf(supported_types) ==
    /\ conf.type_captures = <<P_type>>
    /\ conf.supported_types = supported_types
    /\ conf.headings = H_feat_only
    /\ conf.capitalize_title_first_char
    /\ conf.pre_captures = <<>>

\* C1 as stated: with supported_types = {feat: "Features"} and headings =
\* {feat: "Features"}, the commits "feat: add login" and "chore: bump deps"
\* give a document with "Add login" under "Features" and "Bump deps" under
\* "Others"
C1_Original ==
    (Printed /\ ExampleConf(ST_labels) /\ repo_commits = <<M_feat, M_chore>>)
    => /\ HasBullet(LastDoc, L_Features, T_Add_login)
       /\ HasBullet(LastDoc, L_Others, T_Bump_deps)

\* what the loop makes of one commit, taken alone
Alone(messages) == main_loop_body(conf, EmptyContent, messages).cm

\* the title of a commit classified SUPPORTED_TYPE is a bullet of every
\* section of md whose heading key is supported_types[type]
UnderItsHeading(md, one) ==
    one.type_capture_output.type_match = "SUPPORTED_TYPE" =>
        \A i \in 1..Len(conf.headings) :
            conf.headings[i].key = conf.supported_types[one.type_capture_output.type_capture]
            => HasBullet(md, conf.headings[i].text, one.title)

\* C1 amended: the value supported_types gives for a type is a key of
\* headings, not a display text.  With supported_types = {feat: "feat"} and
\* headings = {feat: "Features"} the two commits give "Add login" under
\* "Features" and "Bump deps" under "Others"; in general the title of every
\* commit classified SUPPORTED_TYPE is a bullet of the section whose text
\* headings gives for the key supported_types[type].  With supported_types =
\* {feat: "Features"} that key is "Features", headings has no such key and
\* the document has no "Features" section
C1_Amended ==
    Printed =>
        /\ (ExampleConf(ST_feat) /\ repo_commits = <<M_feat, M_chore>>)
           => /\ HasBullet(LastDoc, L_Features, T_Add_login)
              /\ HasBullet(LastDoc, L_Others, T_Bump_deps)
        /\ (ExampleConf(ST_labels) /\ repo_commits = <<M_feat, M_chore>>)
           => /\ \A i \in HeadingPositions(LastDoc) : LastDoc[i].t # L_Features
              /\ HasBullet(LastDoc, L_Others, T_Bump_deps)
        /\ \A n \in 1..Len(repo_commits) :
             UnderItsHeading(LastDoc, Alone(repo_commits[n]))

\* C1 witness: the two commits of the example were rendered under the
\* configuration whose supported_types value is the heading key
C1_Witness ==
    /\ Printed /\ ExampleConf(ST_feat) /\ repo_commits = <<M_feat, M_chore>>
    /\ HasBullet(LastDoc, L_Features, T_Add_login)

\* C2 as stated: when the inline flag and an explicit breaking-change line
\* both fire on a commit, the iteration appends exactly one entry to
\* breaking_changes, and it is the explicit text, whatever that text is
\* (the empty text included)
C2_Claim ==
    [][(/\ ProcessCommit
        /\ pc' = "loop"
        /\ cm'.type_capture_output.is_breaking_change
        /\ cm'.breaking_change_title_explicit # None)
       => mdc'.breaking_changes =
            Append(mdc.breaking_changes, cm'.breaking_change_title_explicit)]_vars

\* C3 as stated: every run starts from an empty aggregator, and a second run
\* on the same commits and configuration prints the same document as the
\* first
C3_Claim ==
    /\ (pc = "loop" /\ idx = 0) => mdc = EmptyContent
    /\ \A k \in 1..Len(out) : out[k] = out[1]

\* the match of the first type-capture pattern that matches title produced
\* its second group
SecondGroupProduced(type_captures, title) ==
    \E i \in 1..Len(type_captures) :
        /\ re_match(type_captures[i], title).ok
        /\ \A j \in 1..(i - 1) : ~ re_match(type_captures[j], title).ok
        /\ Len(re_match(type_captures[i], title).groups) >= 2
        /\ re_match(type_captures[i], title).groups[2] # None

\* C4 as stated: a commit is flagged inline exactly when
\* type_captures_allow_breaking_change_group is true and the winning match
\* produced a second group
C4_Claim ==
    IterationDone =>
        (cm.type_capture_output.is_breaking_change
         <=> (/\ conf.type_captures_allow_breaking_change_group
              /\ SecondGroupProduced(conf.type_captures, cm.pre_title)))

\* C5 as stated: with capitalize_title_first_char the classifier's title and
\* the detector's text are the un-capitalized text with only the first
\* character upper-cased; without it they are the un-capitalized text
C5_Claim ==
    IterationDone =>
        LET plain == [conf EXCEPT !.capitalize_title_first_char = FALSE]
            raw_title == Classify(plain, cm.pre_title).title
            raw_text == process_breaking_change(cm.messages,
                            conf.breaking_change_line_captures,
                            conf.breaking_change_line_captures_after_trim,
                            FALSE).msg
        IN  /\ cm.type_capture_output.title =
                 (IF conf.capitalize_title_first_char
                  THEN UpperFirst(raw_title) ELSE raw_title)
            /\ cm.breaking_change_title_explicit # None =>
                 cm.breaking_change_title_explicit =
                   (IF conf.capitalize_title_first_char
                    THEN UpperFirst(raw_text) ELSE raw_text)

\* the tags that are valid semantic versions, by position, and their versions
ValidTags == {i \in 1..Len(repo_tags) : is_valid(clean_tag(repo_tags[i]))}
TagVersion(i) == parse(clean_tag(repo_tags[i]))

\* the range with the leading "~" replaced by tag i, or with "~.." removed
WithTag(i) == repo_tags[i] \o Tail(args.commits)
Stripped == SubSeq(args.commits, 4, Len(args.commits))

\* C6: for a range starting with "~.." and a release title that is a valid
\* semantic version, the resolved range starts with a valid-semver tag whose
\* version is strictly less than the title's and not less than that of any
\* other such tag; when no tag is strictly less, "~.." is removed.  Tags
\* v1.0.0, v1.2.0, v2.0.0 and title v1.5.0 turn "~..HEAD" into "v1.2.0..HEAD"
C6_ClosestPrevious ==
    /\ (pc = "resolved" /\ StartsWithSentinel(args.commits)
        /\ is_valid(clean_tag(args.title)))
       => LET target == parse(clean_tag(args.title))
              lower == {i \in ValidTags : VersionLess(TagVersion(i), target)}
          IN  IF lower = {} THEN commits_str = Stripped
              ELSE \E i \in lower :
                     /\ commits_str = WithTag(i)
                     /\ \A j \in lower : ~ VersionLess(TagVersion(i), TagVersion(j))
    /\ (pc = "resolved" /\ args = [commits |-> R_head, title |-> V_v150]
        /\ repo_tags = <<G_v100, G_v120, G_v200>>)
       => commits_str = X_v120_head

\* C6 witness: the example of the claim, resolved
C6_Witness ==
    /\ pc = "resolved"
    /\ args = [commits |-> R_head, title |-> V_v150]
    /\ repo_tags = <<G_v100, G_v120, G_v200>>
    /\ commits_str = X_v120_head

\* C7: for a range starting with "~.." and a release title that is not a
\* valid semantic version, the resolved range starts with a valid-semver tag
\* of the greatest version; without any valid-semver tag "~.." is removed
\* and a warning is printed.  A range is returned in every branch and it
\* does not start with "~"
C7_Latest ==
    /\ (pc = "resolved" /\ StartsWithSentinel(args.commits)
        /\ ~ is_valid(clean_tag(args.title)))
       => /\ IF ValidTags = {}
             THEN /\ commits_str = Stripped
                  /\ warnings = <<"No valid semver release title or tags found">>
             ELSE \E i \in ValidTags :
                    /\ commits_str = WithTag(i)
                    /\ \A j \in ValidTags : ~ VersionLess(TagVersion(i), TagVersion(j))
    /\ (pc = "resolved" /\ StartsWithSentinel(args.commits))
       => /\ Len(warnings) = 1
          /\ (commits_str # <<>> => commits_str[1] # "~")
    /\ (pc = "resolved" /\ args = [commits |-> R_head, title |-> V_vXYZ]
        /\ repo_tags = <<G_v120, G_v1100, G_latest>>)
       => commits_str = X_v1100_head

\* C7 witness: a title that is no semantic version, resolved against two
\* valid tags, the later one the greater, and a tag that is no version
C7_Witness ==
    /\ pc = "resolved"
    /\ args = [commits |-> R_head, title |-> V_vXYZ]
    /\ repo_tags = <<G_v120, G_v1100, G_latest>>
    /\ commits_str = X_v1100_head

\* place of a section label in the order the configuration fixes: the
\* headings in their order, then Others, then the breaking changes
Rank(label) ==
    IF label = conf.breaking_changes_heading THEN Len(conf.headings) + 2
    ELSE IF label = conf.others_heading THEN Len(conf.headings) + 1
    ELSE CHOOSE n \in 1..Len(conf.headings) : conf.headings[n].text = label

\* C8: in every printed document the heading sections come in the order of
\* the keys of headings, whatever the order of the commits; Others comes
\* after them and the breaking changes come last
C8_HeadingOrder ==
    Printed =>
        \A i, j \in HeadingPositions(LastDoc) :
            i < j => Rank(LastDoc[i].t) < Rank(LastDoc[j].t)

\* C8 witness: the fix commit came before the feat commit, headings lists
\* feat before fix, and the document has both sections and the breaking
\* changes
C8_Witness ==
    /\ Printed
    /\ conf.headings = H_feat_fix
    /\ repo_commits = <<M_drop, M_break>>
    /\ Cardinality(HeadingPositions(LastDoc)) = 3

\* the section of md at position i was printed for a bucket that holds a title
FromNonEmptyBucket(md, i) ==
    IF md[i].t = conf.breaking_changes_heading THEN mdc.breaking_changes # <<>>
    ELSE IF md[i].t = conf.others_heading THEN mdc.others # <<>>
    ELSE \E n \in 1..Len(conf.headings) :
           /\ conf.headings[n].text = md[i].t
           /\ conf.headings[n].key \in DOMAIN mdc.values

\* C9: no printed section is without a bullet line: every bucket of values
\* holds a title, and a section is printed only for a non-empty bucket
C9_NoEmptySection ==
    /\ \A h \in DOMAIN mdc.values : mdc.values[h] # <<>>
    /\ Printed =>
         \A i \in HeadingPositions(LastDoc) :
             /\ BulletPositions(LastDoc, i) # {}
             /\ FromNonEmptyBucket(LastDoc, i)

\* C9 witness: a document was printed with a section while others is empty
\* and a configured heading has no bucket
C9_Witness ==
    /\ Printed
    /\ HeadingPositions(LastDoc) # {}
    /\ mdc.others = <<>>
    /\ \E n \in 1..Len(conf.headings) : conf.headings[n].key \notin DOMAIN mdc.values

\* C10 as stated: every section is followed by one blank line, except the
\* last section of the document, whichever it is, which is followed by none
C10_Original ==
    Printed =>
        \A i \in HeadingPositions(LastDoc) :
            BlankLinesAfter(LastDoc, i) = IF IsLastSection(LastDoc, i) THEN 0 ELSE 1

\* C10 amended: every heading section and the Others section is followed by
\* one blank line, also when it is the last section of the document; the
\* breaking-changes section, which is the last one whenever it is present,
\* is followed by none
C10_Amended ==
    Printed =>
        \A i \in HeadingPositions(LastDoc) :
            IF LastDoc[i].t = conf.breaking_changes_heading
            THEN IsLastSection(LastDoc, i) /\ BlankLinesAfter(LastDoc, i) = 0
            ELSE BlankLinesAfter(LastDoc, i) = 1

\* C10 witness: a document that ends with a section other than the breaking
\* changes, and that section is followed by a blank line
C10_Witness ==
    /\ Printed
    /\ \E i \in HeadingPositions(LastDoc) :
         /\ IsLastSection(LastDoc, i)
         /\ LastDoc[i].t # conf.breaking_changes_heading
         /\ BlankLinesAfter(LastDoc, i) = 1

\* the subject of the last commit as process_pre_capture received it
Subject == Processed(conf.preprocessing, cm.messages[1])

\* s after the prefix matched by pat is discarded and the leading match of
\* after_trim is removed from the remainder
PrefixRemoved(pat, after_trim, s) ==
    re_sub_prefix(after_trim, RemoveMatch(re_match(pat, s), s))

\* C11 as stated: when a pre-capture pattern matches the subject, the title
\* process_pre_capture passes on is the rest of the subject after the prefix
\* matched by the first such pattern, with the leading pre_captures_after_trim
\* match removed, also for a pattern with capture groups; and the text
\* process_breaking_change returns is, for a pattern and a line it matches,
\* the rest of the line after the matched prefix, trimmed and enhanced
C11_Claim ==
    IterationDone =>
        /\ Matching(conf.pre_captures, Subject) # {} =>
             cm.pre_title =
               PrefixRemoved(conf.pre_captures[FirstMatching(conf.pre_captures, Subject)],
                             conf.pre_captures_after_trim, Subject)
        /\ cm.breaking_change_title_explicit # None =>
             \E i \in 1..Len(conf.breaking_change_line_captures) :
               \E j \in 1..Len(cm.messages) :
                 /\ re_match(conf.breaking_change_line_captures[i], cm.messages[j]).ok
                 /\ cm.breaking_change_title_explicit =
                      enhance_title(
                        PrefixRemoved(conf.breaking_change_line_captures[i],
                                      conf.breaking_change_line_captures_after_trim,
                                      cm.messages[j]),
                        conf.capitalize_title_first_char)

\* the lines of the last commit that pattern i of
\* breaking_change_line_captures matches, and the patterns that match a line
LinesMatching(i) ==
    {j \in 1..Len(cm.messages) :
        re_match(conf.breaking_change_line_captures[i], cm.messages[j]).ok}
PatternsHitting ==
    {i \in 1..Len(conf.breaking_change_line_captures) : LinesMatching(i) # {}}

\* what process_breaking_change makes of line j with pattern i
ProcessedLine(i, j) ==
    BreakingLine(re_split(conf.breaking_change_line_captures[i], cm.messages[j])[2],
                 conf.breaking_change_line_captures_after_trim,
                 conf.capitalize_title_first_char).msg

\* C12: process_breaking_change returns None exactly when no pattern matches
\* any line of the message (so also when the pattern list is empty);
\* otherwise it returns one text, the processed text of the first line, in
\* line order, matched by the first pattern, in list order, that matches any
\* line: a later line matched by an earlier pattern wins over an earlier
\* line matched only by a later pattern
C12_PatternMajor ==
    IterationDone =>
        IF PatternsHitting = {}
        THEN cm.breaking_change_title_explicit = None
        ELSE /\ cm.breaking_change_title_explicit # None
             /\ cm.breaking_change_title_explicit =
                  ProcessedLine(Min(PatternsHitting),
                                Min(LinesMatching(Min(PatternsHitting))))

\* C12 witness: the second pattern matches the subject, the first pattern
\* only the third line, and the text of the third line was returned
C12_Witness ==
    /\ IterationDone
    /\ conf.breaking_change_line_captures = <<P_breaking, P_bang_subject>>
    /\ cm.messages = M_break
    /\ LinesMatching(1) = {3}
    /\ LinesMatching(2) = {1}
    /\ cm.breaking_change_title_explicit = ProcessedLine(1, 3)
    /\ cm.breaking_change_title_explicit # ProcessedLine(2, 1)

====
